---- MODULE Spec2Model ----
(***************************************************************************)
(* Model of torch-audio-training-utils:                                    *)
(*   src/src/loading.py       enforce_length, load_audio                   *)
(*   src/src/AudioDataset.py  AudioDataset.__init__/__len__/__getitem__    *)
(*                                                                         *)
(* Python values are boxed records tagged by their class (field cls), so   *)
(* that `x is None`, len(x) and tuple comparison behave as in Python.      *)
(* A call either returns a value or raises; both are records (field ok).   *)
(*                                                                         *)
(* A call is not atomic: another thread runs between any two of its reads  *)
(* of the provider, during a decode, during the wait (sleep) that follows  *)
(* a decode attempt that raised, and during a print. A step of the model   *)
(* is one access of the provider or one decode attempt, with the local     *)
(* work that follows it: run[t] holds the call thread t is in the middle   *)
(* of, its position (pc, named after the source line it executes next) and *)
(* its locals; call and ret hold the call that the last step ended and its *)
(* outcome (no call and Pending when the step ended none).                 *)
(***************************************************************************)
EXTENDS Integers, Sequences, FiniteSets, TLC

VARIABLES fs, ds, run, call, ret

vars == <<fs, ds, run, call, ret>>

(* ------------------------------ bounds -------------------------------- *)

\* Longest decoded waveform (frames per channel) drawn as an input.
MaxFrames == 2

\* Longest source list a provider is constructed from.
MaxSources == 2

(* --------------------------- Python values ---------------------------- *)

None == [cls |-> "NoneType"]

PyInt(n) == [cls |-> "int", v |-> n]

PyBool(b) == [cls |-> "bool", v |-> b]

PyStr(s) == [cls |-> "str", v |-> s]

PyList(s) == [cls |-> "list", v |-> s]

PyTuple(s) == [cls |-> "tuple", v |-> s]

\* A number whose class also defines __len__ (returning 1): the only kind
\* of number that passes `len(enforce_length_s) <= 0` without a TypeError.
SizedInt(n) == [cls |-> "SizedInt", v |-> n]

\* A torch.Tensor: nd dimensions; d is the samples (nd = 1) or the
\* sequence of channels, each a sequence of samples (nd = 2).
\* A sample is an integer, or a fraction [num, den] in lowest terms.
Tensor(nd, d) == [cls |-> "Tensor", nd |-> nd, d |-> d]

\* A local variable that no assignment has bound yet.
Unbound == [cls |-> "<unbound>"]

Return(v) == [ok |-> TRUE, val |-> v]

Raise(type, msg) == [ok |-> FALSE, type |-> type, msg |-> msg]

\* The outcome of a call that has not ended.
Pending == [pending |-> TRUE]

\* The builtin len(): defined for sized objects, TypeError otherwise.
PyLen(x) ==
  IF x.cls \in {"list", "tuple", "str"} THEN Return(Len(x.v))
  ELSE IF x.cls = "Tensor" THEN Return(Len(x.d))
  ELSE IF x.cls = "SizedInt" THEN Return(1)
  ELSE Raise("TypeError", "object has no len()")

\* x[i]: None is not subscriptable; a list raises IndexError outside
\* -len..len-1, a negative i counting from the end.
PyGetItem(x, i) ==
  IF x = None THEN Raise("TypeError", "'NoneType' object is not subscriptable")
  ELSE IF 0 <= i /\ i < Len(x.v) THEN Return(x.v[i + 1])
  ELSE IF i < 0 /\ -i <= Len(x.v) THEN Return(x.v[Len(x.v) + i + 1])
  ELSE Raise("IndexError", "list index out of range")

\* Calling a value as a function: numbers, None, ... are not callable.
PyCall(f, args) == Raise("TypeError", "object is not callable")

\* Reading a local variable: UnboundLocalError when it was never assigned.
ReadLocal(x) ==
  IF x = Unbound THEN Raise("UnboundLocalError", "local variable referenced before assignment")
  ELSE Return(x)

(* ----------------------- the errors the code raises ------------------- *)

\* loading.py:101 (the loader's own failure: the spec's DecodeError)
DecodeError ==
  Raise("Exception", "File at source does not contain any data or does not exist")

\* loading.py:32-38 (the length-enforcement checks: the spec's ValidationError)
NotATensorError == Raise("Exception", "Input waveform is not a torch.Tensor instance")

EmptyWaveformError == Raise("Exception", "Waveform is empty")

BadLengthError == Raise("Exception", "Cannot enforce length less than 0")

BadRateError == Raise("Exception", "Sample rate is less or equal 0")

ValidationErrors == {NotATensorError, EmptyWaveformError, BadLengthError, BadRateError}

\* AudioDataset.py:139 (the spec's ExhaustionError)
ExhaustionError == Raise("Exception", "All paths are invalid")

\* AudioDataset.py:71 (the spec's DimensionMismatch)
DimensionMismatch ==
  Raise("TypeError", "Expected paths and labels to have save dimensions")

(* ------------------------------ helpers ------------------------------- *)

RECURSIVE SeqSum(_)
SeqSum(s) == IF s = <<>> THEN 0 ELSE s[1] + SeqSum(Tail(s))

SeqsUpTo(S, n) == UNION {[1..k -> S] : k \in 0..n}

Abs(n) == IF n < 0 THEN -n ELSE n

RECURSIVE Gcd(_, _)
Gcd(a, b) == IF b = 0 THEN a ELSE Gcd(b, a % b)

\* The number num / den (den > 0): an integer when the division is exact,
\* the fraction in lowest terms otherwise.
Quotient(num, den) ==
  IF num % den = 0 THEN num \div den
  ELSE LET g == Gcd(Abs(num), den) IN [num |-> num \div g, den |-> den \div g]

(* --------------------- loading.py: enforce_length --------------------- *)

\* torch.zeros(length): a 1-D tensor of `length` zeros; a negative size
\* is refused.
zeros(length) ==
  IF length < 0
    THEN Raise("RuntimeError",
               "Trying to create tensor with negative dimension " \o ToString(length))
    ELSE Return(Tensor(1, [i \in 1..length |-> 0]))

\* The end of the slice [0:stop] of n items: a negative stop counts from
\* the end, and the result is clipped to 0..n.
SliceStop(stop, n) ==
  IF stop < 0 THEN (IF n + stop < 0 THEN 0 ELSE n + stop)
  ELSE IF stop > n THEN n ELSE stop

\* waveform[0:length] on the first dimension.
Slice(waveform, length) ==
  Tensor(waveform.nd, SubSeq(waveform.d, 1, SliceStop(length, Len(waveform.d))))

\* tmp = zeros(length); tmp[0:len(waveform)] = waveform; return tmp.
\* The slice tmp[0:len(waveform)] has m items. The waveform is written
\* into it with its leading dimensions of size 1 dropped (a 2-D waveform
\* of one channel as that channel), and fits when it then has m items or
\* one item, which is repeated; any other shape does not fit the slice.
PadRight(waveform, length) ==
  LET tmp == zeros(length)
      n == Len(waveform.d)
      m == SliceStop(n, length)
      v == IF waveform.nd = 2 /\ n = 1 THEN waveform.d[1] ELSE waveform.d
  IN IF ~tmp.ok THEN tmp
     ELSE IF (waveform.nd = 1 \/ n = 1) /\ (Len(v) = m \/ Len(v) = 1)
       THEN Return(Tensor(1, [i \in 1..length |->
                                IF i <= m THEN v[IF Len(v) = m THEN i ELSE 1] ELSE 0]))
     ELSE Raise("RuntimeError", "shape mismatch")

enforce_length(waveform, sample_rate, enforce_length_s) ==
  IF waveform.cls # "Tensor"
    THEN NotATensorError
  ELSE IF Len(waveform.d) <= 0
    THEN EmptyWaveformError
  ELSE IF ~PyLen(enforce_length_s).ok
    THEN PyLen(enforce_length_s)
  ELSE IF PyLen(enforce_length_s).val <= 0
    THEN BadLengthError
  ELSE IF sample_rate.v <= 0
    THEN BadRateError
  ELSE IF enforce_length_s.cls \notin {"int", "SizedInt"}
    \* sample_rate * <list, tuple, str> is a sequence, which the
    \* comparisons of lines 42-48 cannot order against len(waveform)
    THEN Raise("TypeError", "'>' not supported between instances")
  ELSE LET length == sample_rate.v * enforce_length_s.v IN
       IF Len(waveform.d) = length THEN Return(waveform)
       ELSE IF Len(waveform.d) > length THEN Return(Slice(waveform, length))
       ELSE PadRight(waveform, length)

(* ----------------------- loading.py: load_audio ----------------------- *)

\* Number of decode attempts made by the retry loop.
Retries == 3

\* What one decode attempt on a file can do, by the state of the file:
\* a readable file decodes, an absent or corrupt one raises, a file behind
\* a transient I/O fault does either, a decoder that reports no data
\* returns None for the samples.
DecodeOutcomes(file) ==
  CASE file.status = "ok" -> {"ok"}
    [] file.status = "bad" -> {"raise"}
    [] file.status = "flaky" -> {"ok", "raise"}
    [] file.status = "nodata" -> {"none"}

\* torchaudio.load(source): (samples as a channels x frames tensor, rate).
load(file, o) ==
  IF o = "raise" THEN Raise("RuntimeError", "decode failed")
  ELSE IF o = "none" THEN Return(<<None, PyInt(file.rate)>>)
  ELSE Return(<<file.wav, PyInt(file.rate)>>)

\* The locals of load_audio that the loop has not bound.
NoDecode == [waveform |-> Unbound, rate |-> Unbound]

\* Variant of DecodeAttempt without the break: an attempt that answers is
\* followed by the wait and the next attempt like one that raises.
DecodeAttempt_NoBreak(file, o) ==
  [break |-> FALSE]

\* One pass of the loop body, lines 93-97, o being what the decoder does:
\*   try: waveform, rate = load(source); break
\*   except: sleep(0.5)
\* An attempt that answers binds the locals and leaves the loop; one that
\* raises binds nothing and ends in the wait.
DecodeAttempt(file, o) ==
  LET r == load(file, o) IN
  IF r.ok THEN [break |-> TRUE, waveform |-> r.val[1], rate |-> r.val[2]]
  ELSE [break |-> FALSE]

\* for i in range(3): the passes made one after the other, outs[i] being
\* the outcome of the i-th decode attempt, if it is made. Yields the locals
\* after the loop and the numbers of attempts and of waits.
RECURSIVE DecodeLoop(_, _, _)
DecodeLoop(file, outs, i) ==
  IF i > Retries
    THEN [waveform |-> Unbound, rate |-> Unbound, calls |-> Retries, sleeps |-> Retries]
  ELSE LET a == DecodeAttempt(file, outs[i]) IN
       IF a.break
         THEN [waveform |-> a.waveform, rate |-> a.rate, calls |-> i, sleeps |-> i - 1]
         ELSE DecodeLoop(file, outs, i + 1)

\* Length of a channel of n frames after resampling orig -> new.
ResampledLen(n, orig, new) == (n * new + orig - 1) \div orig

ResampleChannel(ch, orig, new) ==
  [k \in 1..ResampledLen(Len(ch), orig, new) |-> ch[((k - 1) * orig) \div new + 1]]

\* torchaudio.functional.resample(waveform, orig_freq, new_freq), applied
\* along the last dimension. Output length is ceil(n * new / orig); the
\* sample values stand for the interpolated ones (nearest earlier frame).
resample(waveform, orig_freq, new_freq) ==
  IF orig_freq <= 0 \/ new_freq <= 0
    THEN Raise("ValueError", "Original and new frequencies must be positive")
  ELSE IF waveform.nd = 1
    THEN Return(Tensor(1, ResampleChannel(waveform.d, orig_freq, new_freq)))
  ELSE Return(Tensor(2, [c \in 1..Len(waveform.d) |->
                           ResampleChannel(waveform.d[c], orig_freq, new_freq)]))

\* waveform.mean(dim=0) of a channels x frames tensor: the per-frame
\* arithmetic mean across the channels, exactly (a fraction when the sum
\* of a frame is not a multiple of the number of channels).
MeanDim0(waveform) ==
  LET nch == Len(waveform.d)
      n == Len(waveform.d[1])
  IN Tensor(1, [k \in 1..n |-> Quotient(SeqSum([c \in 1..nch |-> waveform.d[c][k]]), nch)])

\* Variant of ResampleStep that forgets `rate = sample_rate` (line 107).
ResampleStep_KeepsRate(st, sample_rate) ==
  IF sample_rate # None /\ st.rate # sample_rate
    THEN LET r == resample(st.waveform, st.rate.v, sample_rate.v) IN
         IF r.ok THEN Return([waveform |-> r.val, rate |-> st.rate]) ELSE r
    ELSE Return(st)

\* Lines 103-107: resample when a rate is asked that differs from the native one.
ResampleStep(st, sample_rate) ==
  IF sample_rate # None /\ st.rate # sample_rate
    THEN LET r == resample(st.waveform, st.rate.v, sample_rate.v) IN
         IF r.ok THEN Return([waveform |-> r.val, rate |-> sample_rate]) ELSE r
    ELSE Return(st)

\* Lines 109-111: if mono is not None and len(waveform.shape) > 1.
MonoStep(waveform, mono) ==
  IF mono # None /\ waveform.nd > 1 THEN MeanDim0(waveform) ELSE waveform

\* Lines 113-114: waveform = enforce_length_s(waveform, rate).
EnforceStep(waveform, rate, enforce_length_s) ==
  IF enforce_length_s # None
    THEN PyCall(enforce_length_s, <<waveform, rate>>)
    ELSE Return(waveform)

\* Lines 99-116: what load_audio does after the loop, dec being the locals
\* (waveform, rate) as the loop has left them.
AfterLoop(dec, mono, sample_rate, enforce_length_s) ==
  LET w0 == ReadLocal(dec.waveform)
  IN IF ~w0.ok THEN w0
     ELSE IF w0.val = None
       THEN DecodeError
     ELSE LET rs == ResampleStep([waveform |-> w0.val, rate |-> dec.rate], sample_rate) IN
          IF ~rs.ok THEN rs
          ELSE EnforceStep(MonoStep(rs.val.waveform, mono), rs.val.rate, enforce_length_s)

\* A whole load_audio call, from the outcomes of its decode attempts.
load_audio(file, mono, sample_rate, enforce_length_s, outs) ==
  AfterLoop(DecodeLoop(file, outs, 1), mono, sample_rate, enforce_length_s)

\* What a load_audio call did on its way: the number of decode attempts
\* of the loop (lines 92-97), whether it went on with a decoded buffer,
\* that buffer and its rate as bound at line 94, and the (waveform, rate)
\* pair after lines 105-107, whose rate is the one line 114 passes on.
LoadTrace(dec, calls, sample_rate) ==
  LET w0 == ReadLocal(dec.waveform)
  IN IF ~w0.ok \/ w0.val = None
       THEN [calls |-> calls, decoded |-> FALSE]
       ELSE [calls |-> calls, decoded |-> TRUE,
             waveform |-> w0.val, rate |-> dec.rate,
             resampled |-> ResampleStep([waveform |-> w0.val, rate |-> dec.rate],
                                        sample_rate)]

\* The decode outcomes `outs` of the attempts a call made, as the outcomes
\* of all the attempts it could make (the last one repeated).
Script(outs) ==
  [k \in 1..Retries |-> IF k <= Len(outs) THEN outs[k] ELSE outs[Len(outs)]]
(* -------------------- AudioDataset.py: AudioDataset ------------------- *)

\* Names an AudioDataset instance resolves: the attributes __init__ sets
\* and the methods the class defines.
InstanceAttrs ==
  {"_sources", "_labels", "_to_mono", "_enforce_length_s", "_only_waveform", "sr",
   "__init__", "__len__", "__getitem__"}

\* self.<name>: AttributeError for a name the instance does not have.
GetAttr(name) ==
  IF name \in InstanceAttrs THEN Return(name)
  ELSE Raise("AttributeError", "'AudioDataset' object has no attribute")

\* Variant of DimensionCheck that misses labels shorter than paths.
DimensionCheck_Short(self) ==
  IF self._labels # None /\ PyLen(self._sources).val < PyLen(self._labels).val
    THEN DimensionMismatch
    ELSE Return(None)

\* Lines 70-73: the lengths of the two lists, as self has them, are compared.
DimensionCheck(self) ==
  IF self._labels # None /\ PyLen(self._sources).val # PyLen(self._labels).val
    THEN DimensionMismatch
    ELSE Return(None)

\* The positions of an __init__ call, one for each assignment of lines
\* 62-67 and one for the check of lines 70-73.
InitLines == {"l62", "l63", "l64", "l65", "l66", "l67", "l70"}

\* The frame of an __init__ call that has executed nothing yet.
InitEnter(paths, labels, only_waveform, mono, sample_rate, enforce_length_s) ==
  [op |-> "__init__", pc |-> "l62", paths |-> paths, labels |-> labels,
   only_waveform |-> only_waveform, mono |-> mono, sample_rate |-> sample_rate,
   enforce_length_s |-> enforce_length_s, ret |-> Pending]

\* The next line of an __init__ call in frame f on the instance self:
\* yields the instance and the frame after it.
InitStep(self, f) ==
  CASE f.pc = "l62" -> [self |-> [self EXCEPT !._sources = f.paths],
                        f |-> [f EXCEPT !.pc = "l63"]]
    [] f.pc = "l63" -> [self |-> [self EXCEPT !._labels = f.labels],
                        f |-> [f EXCEPT !.pc = "l64"]]
    [] f.pc = "l64" -> [self |-> [self EXCEPT !._to_mono = f.mono],
                        f |-> [f EXCEPT !.pc = "l65"]]
    [] f.pc = "l65" -> [self |-> [self EXCEPT !._enforce_length_s = f.enforce_length_s],
                        f |-> [f EXCEPT !.pc = "l66"]]
    [] f.pc = "l66" -> [self |-> [self EXCEPT !._only_waveform = f.only_waveform],
                        f |-> [f EXCEPT !.pc = "l67"]]
    [] f.pc = "l67" -> [self |-> [self EXCEPT !.sr = f.sample_rate],
                        f |-> [f EXCEPT !.pc = "l70"]]
    [] f.pc = "l70" -> [self |-> self,
                        f |-> [f EXCEPT !.pc = "end", !.ret = DimensionCheck(self)]]

\* The lines of an __init__ call one after the other, nothing else
\* touching the instance meanwhile.
RECURSIVE InitRun(_, _)
InitRun(self, f) ==
  IF f.pc = "end" THEN [self |-> self, ret |-> f.ret]
  ELSE LET s == InitStep(self, f) IN InitRun(s.self, s.f)

\* An instance that __init__ has not run on: it has no attribute yet.
NewInstance ==
  [_sources |-> Unbound, _labels |-> Unbound, _to_mono |-> Unbound,
   _enforce_length_s |-> Unbound, _only_waveform |-> Unbound, sr |-> Unbound]

\* AudioDataset(...): lines 62-73 on a new instance, which no other thread
\* can reach before the call returns. Yields the attributes as assigned
\* and the outcome of the call.
AudioDataset_init(paths, labels, only_waveform, mono, sample_rate, enforce_length_s) ==
  InitRun(NewInstance,
          InitEnter(paths, labels, only_waveform, mono, sample_rate, enforce_length_s))

AudioDataset_len(self) == PyLen(self._sources).val

\* Line 130: waveform = self.load_audio(self._sources[i], self.sr)
CandidateLoad(self, files, i, outs) ==
  LET m == GetAttr("load_audio") IN
  IF ~m.ok THEN m
  ELSE load_audio(files[self._sources.v[i + 1].v], self.sr, None, None, outs)

\* Decode attempts made by the candidate load of line 130: none when the
\* attribute lookup raises before any call.
CandidateDecodes(self, files, i, outs) ==
  IF ~GetAttr("load_audio").ok THEN 0
  ELSE DecodeLoop(files[self._sources.v[i + 1].v], outs, 1).calls

\* No exception is on its way out of the call.
NoException == Return(None)

\* The positions of a __getitem__ call, each named after the line whose
\* access of self (or whose decode attempt, loading.py:94) comes next.
ConfigLines == {"l121", "l122", "l123"}

HandlerLines == {"l126", "l128", "l130", "l132", "l135"}

ShapeLines == {"l141", "l142", "l145", "l147", "l148", "l150", "l150b"}

\* The call has ended with outcome r.
Ended(f, r) == [f EXCEPT !.pc = "end", !.ret = r]

\* Lines 119-120: the call is entered and self._sources[idx] is read.
\* Yields the frame of the call: its position pc, the arguments of
\* load_audio as read so far, the outcomes outs of its decode attempts,
\* the locals st = (waveform, idx), the indices tried, the exception exc
\* that leaves the handler if one does, the permutation drawn and the
\* position k reached in it, and what lines 141-150 have read.
\* An IndexError of line 120 is caught by line 125 like a failed load.
GetItemEnter(self, idx) ==
  LET r == PyGetItem(self._sources, idx)
      f == [op |-> "__getitem__", pc |-> "l121", idx |-> idx, source |-> Unbound,
            mono |-> Unbound, sample_rate |-> Unbound, enforce_length_s |-> Unbound,
            outs |-> <<>>, decodes |-> 0, first_ok |-> FALSE,
            drawn |-> FALSE, perm |-> <<>>, k |-> 0,
            st |-> [waveform |-> Unbound, idx |-> idx, tried |-> <<>>, exc |-> NoException],
            only_waveform |-> Unbound, has_labels |-> Unbound, src |-> Unbound,
            ret |-> Pending]
  IN IF r.ok THEN [f EXCEPT !.source = r.val] ELSE [f EXCEPT !.pc = "l126"]

\* Lines 121-123: the other arguments of load_audio are read, one a step.
ConfigStep(self, f) ==
  CASE f.pc = "l121" -> [f EXCEPT !.mono = self._to_mono, !.pc = "l122"]
    [] f.pc = "l122" -> [f EXCEPT !.sample_rate = self.sr, !.pc = "l123"]
    [] f.pc = "l123" -> [f EXCEPT !.enforce_length_s = self._enforce_length_s, !.pc = "l94"]

\* Lines 138-139: if waveform is None: raise Exception("All paths are invalid").
Line138(f) ==
  LET w == ReadLocal(f.st.waveform)
  IN IF ~w.ok THEN Ended(f, w)
     ELSE IF w.val = None THEN Ended(f, ExhaustionError)
     ELSE [f EXCEPT !.pc = "l141"]

\* How the load_audio call of line 119 ended: its value is bound to
\* waveform (and the try is left for line 138), or line 125 catches what
\* it raised.
AfterFirstLoad(f, first) ==
  IF first.ok THEN Line138([f EXCEPT !.first_ok = TRUE, !.st.waveform = first.val])
  ELSE [f EXCEPT !.pc = "l126"]

\* Variant of LoopOver that lets the loop make one more pass.
LoopOver_OneMore(outs) == Len(outs) >= Retries + 1

\* for i in range(3), loading.py:92: the loop has made all its passes.
LoopOver(outs) == Len(outs) >= Retries

\* One pass of the loop of load_audio (loading.py:92-97) inside the call of
\* line 119, o being what the decoder does: an attempt that answers is
\* followed by the rest of load_audio; one that raises ends in the wait,
\* after which comes the next pass or, after the last one, line 100.
FirstLoadStep(files, f, o) ==
  LET a == DecodeAttempt(files[f.source.v], o)
      g == [f EXCEPT !.outs = Append(@, o), !.decodes = @ + 1]
  IN IF a.break
       THEN AfterFirstLoad(g, AfterLoop(a, f.mono, f.sample_rate, f.enforce_length_s))
     ELSE IF ~LoopOver(g.outs) THEN g
     ELSE AfterFirstLoad(g, AfterLoop(NoDecode, f.mono, f.sample_rate, f.enforce_length_s))

\* Variant of Candidate that tries the indices 0, 1, ... in turn instead of
\* following the permutation drawn.
Candidate_InIndexOrder(perm, k) == k - 1

\* for i in randperm(...).tolist(): the index tried at position k.
Candidate(perm, k) == perm[k]

\* The for loop of line 128 is over: position k is past the permutation.
ScanOver(perm, k) == k > Len(perm)

\* The top of the for loop at position k: line 130 is next, or the loop is
\* over and line 138 reads waveform.
ScanFrom(f, k) ==
  IF ScanOver(f.perm, k) THEN Line138([f EXCEPT !.k = k])
  ELSE [f EXCEPT !.k = k, !.pc = "l130"]

\* Lines 125-136, one access of self a step; perm is what randperm yields
\* at line 128, a permutation of range(len(self)).
\*   l126: print(self._sources[idx]); an IndexError leaves the call
\*   l128: for i in randperm(self.__len__()).tolist()
\*   l130: waveform = self.load_audio(self._sources[i], self.sr); idx = i
\*   l132: print(self._sources[i]); break (an IndexError is caught, l134)
\*   l135: print(self._sources[i]); an IndexError leaves the call
HandlerStep(self, files, f, perm) ==
  LET i == Candidate(f.perm, f.k)
      src == PyGetItem(self._sources, IF f.pc = "l126" THEN f.st.idx ELSE i)
      r == CandidateLoad(self, files, i, Script(f.outs))
  IN CASE f.pc = "l126" ->
            IF src.ok THEN [f EXCEPT !.pc = "l128"]
            ELSE Ended([f EXCEPT !.st.exc = src], src)
       [] f.pc = "l128" -> ScanFrom([f EXCEPT !.drawn = TRUE, !.perm = perm], 1)
       [] f.pc = "l130" ->
            IF r.ok
              THEN [f EXCEPT !.st.tried = Append(@, i), !.st.waveform = r.val, !.st.idx = i,
                             !.decodes = @ + CandidateDecodes(self, files, i, Script(f.outs)),
                             !.pc = "l132"]
              ELSE [f EXCEPT !.st.tried = Append(@, i),
                             !.decodes = @ + CandidateDecodes(self, files, i, Script(f.outs)),
                             !.pc = "l135"]
       [] f.pc = "l132" ->
            IF src.ok THEN Line138(f) ELSE [f EXCEPT !.pc = "l135"]
       [] f.pc = "l135" ->
            IF src.ok THEN ScanFrom(f, f.k + 1)
            ELSE Ended([f EXCEPT !.st.exc = src], src)

\* Variant of Line142 that forgets the label when only the waveform is asked.
Line142_DropsLabel(self, f) ==
  Ended([f EXCEPT !.has_labels = PyBool(self._labels # None)], Return(f.st.waveform))

\* Line 142: if self._labels is None: return waveform (else line 145).
Line142(self, f) ==
  IF self._labels = None
    THEN Ended([f EXCEPT !.has_labels = PyBool(FALSE)], Return(f.st.waveform))
    ELSE [f EXCEPT !.has_labels = PyBool(TRUE), !.pc = "l145"]

\* Lines 141-150, one access of self a step: the shape of the record.
\*   l141: if self._only_waveform is True
\*   l142: if self._labels is None: return waveform
\*   l145: return (waveform, self._labels[idx])
\*   l147: if self._labels is None
\*   l148: return (self._sources[idx], waveform)
\*   l150: self._sources[idx] is read, then (l150b) self._labels[idx]:
\*         return ((self._sources[idx], waveform), self._labels[idx])
ShapeStep(self, f) ==
  LET w == f.st.waveform
      src == PyGetItem(self._sources, f.st.idx)
      lab == PyGetItem(self._labels, f.st.idx)
  IN CASE f.pc = "l141" ->
            [f EXCEPT !.only_waveform = self._only_waveform,
                      !.pc = IF self._only_waveform = PyBool(TRUE) THEN "l142" ELSE "l147"]
       [] f.pc = "l142" -> Line142(self, f)
       [] f.pc = "l145" ->
            Ended(f, IF lab.ok THEN Return(PyTuple(<<w, lab.val>>)) ELSE lab)
       [] f.pc = "l147" ->
            [f EXCEPT !.has_labels = PyBool(self._labels # None),
                      !.pc = IF self._labels = None THEN "l148" ELSE "l150"]
       [] f.pc = "l148" ->
            Ended(f, IF src.ok THEN Return(PyTuple(<<src.val, w>>)) ELSE src)
       [] f.pc = "l150" ->
            IF src.ok THEN [f EXCEPT !.src = src.val, !.pc = "l150b"] ELSE Ended(f, src)
       [] f.pc = "l150b" ->
            Ended(f, IF lab.ok THEN Return(PyTuple(<<PyTuple(<<f.src, w>>), lab.val>>))
                     ELSE lab)

\* The next step of a __getitem__ call in frame f, self and the files
\* being what they are at that step; o is what the decoder does if the
\* step is a decode attempt, perm what randperm yields if it is line 128.
GetItemStep(self, files, f, o, perm) ==
  IF f.pc \in ConfigLines THEN ConfigStep(self, f)
  ELSE IF f.pc = "l94" THEN FirstLoadStep(files, f, o)
  ELSE IF f.pc \in HandlerLines THEN HandlerStep(self, files, f, perm)
  ELSE ShapeStep(self, f)

\* The steps of a call one after the other on a provider that nothing
\* changes meanwhile, outs[i] being the outcome of the i-th decode attempt.
RECURSIVE GetItemRun(_, _, _, _, _)
GetItemRun(self, files, f, outs, perm) ==
  IF f.pc = "end" THEN f
  ELSE LET o == IF f.pc = "l94" THEN outs[Len(f.outs) + 1] ELSE "ok"
       IN GetItemRun(self, files, GetItemStep(self, files, f, o, perm), outs, perm)

\* A whole __getitem__ call on a provider that nothing changes meanwhile,
\* from the outcomes of its decode attempts and the permutation drawn.
AudioDataset_getitem(self, files, idx, outs, perm) ==
  GetItemRun(self, files, GetItemEnter(self, idx), outs, perm).ret

(* ------------------------------ inputs -------------------------------- *)

\* Sample values (even, so that the mean of two channels is an integer).
Samples == {0, 2}

Channels(n) == [1..n -> Samples]

\* 1-D tensors of up to n samples.
Tensors1D(n) == {Tensor(1, d) : d \in SeqsUpTo(Samples, n)}

\* Decoded buffers: 1 or 2 channels of the same number (up to n) of frames.
Tensors2D(n) ==
  UNION {{Tensor(2, <<c>>) : c \in Channels(k)}
           \cup {Tensor(2, <<c1, c2>>) : c1 \in Channels(k), c2 \in Channels(k)}
         : k \in 0..n}

Statuses == {"ok", "bad", "flaky", "nodata"}

Rates == {1, 2}

Files(n) == [status : Statuses, wav : Tensors2D(n), rate : Rates]

OptRates == {None} \cup {PyInt(r) : r \in Rates}

OptBools == {None, PyBool(TRUE), PyBool(FALSE)}

Bools == {PyBool(TRUE), PyBool(FALSE)}

\* enforce_length_s as given to load_audio / AudioDataset.
OptLengths == {None, PyInt(0), PyInt(1)}

Outcomes(file) == [1..Retries -> DecodeOutcomes(file)]

\* The outcomes of the decode attempts of one load, up to the attempts that
\* are never made: the entries after the first answer repeat that answer.
Scripts(file) ==
  {o \in Outcomes(file) : \A i \in 1..(Retries - 1) : o[i] # "raise" => o[i + 1] = o[i]}

NoObject == [cls |-> "<no object>"]

NoFiles == [p \in {} |-> None]

\* The threads that call into the code.
Threads == {"A", "B"}

\* A thread that is in no call.
Idle == [op |-> "idle"]

\* The last step ended no call.
NoCall == [op |-> "none"]

(* ---------------- specification of enforce_length calls --------------- *)

EnforceRates == {PyInt(r) : r \in -1..2}

\* Numbers, numbers that have a length, and an empty list.
EnforceLengths ==
  {PyInt(n) : n \in -1..2} \cup {SizedInt(n) : n \in -1..3} \cup {PyList(<<>>)}

EnforceWaveforms ==
  Tensors1D(MaxFrames)
    \cup {PyList(<<0>>), Tensor(2, <<<<0, 2>>, <<2, 2>>>>), Tensor(2, <<<<2>>>>)}

InitEnforce ==
  /\ fs = NoFiles
  /\ ds = NoObject
  /\ run = [t \in Threads |-> Idle]
  /\ call \in [op : {"enforce_length"}, waveform : EnforceWaveforms,
               sample_rate : EnforceRates, enforce_length_s : EnforceLengths]
  /\ ret = Pending

\* enforce_length has no wait: the call is one step.
CallEnforceLength ==
  /\ call.op = "enforce_length"
  /\ ret = Pending
  /\ ret' = enforce_length(call.waveform, call.sample_rate, call.enforce_length_s)
  /\ UNCHANGED <<fs, ds, run, call>>

NextEnforce == CallEnforceLength

SpecEnforce == InitEnforce /\ [][NextEnforce]_vars

(* ------------------ specification of load_audio calls ----------------- *)

\* The file the second thread loads while the first loads its own.
OtherFile == [status |-> "flaky", wav |-> Tensor(2, <<<<2, 0>>>>), rate |-> 2]

\* The load_audio call each thread makes: thread A any call on source a,
\* thread B the call load_audio("b") with the defaults.
LoadCalls(t) ==
  IF t = "A"
    THEN [op : {"load_audio"}, source : {"a"}, mono : OptBools, sample_rate : OptRates,
          enforce_length_s : OptLengths, outs : {<<>>}]
    ELSE [op : {"load_audio"}, source : {"b"}, mono : {PyBool(TRUE)}, sample_rate : {None},
          enforce_length_s : {None}, outs : {<<>>}]

\* Every thread has just called load_audio; outs collects the outcomes of
\* the decode attempts its call has made.
InitLoad ==
  /\ fs \in {[p \in {"a", "b"} |-> IF p = "a" THEN f ELSE OtherFile] : f \in Files(MaxFrames)}
  /\ ds = NoObject
  /\ run \in {r \in [Threads -> UNION {LoadCalls(t) : t \in Threads}] :
                \A t \in Threads : r[t] \in LoadCalls(t)}
  /\ call = NoCall
  /\ ret = Pending

\* Lines 99-116 and the return of the load_audio call of thread t, which
\* left the loop with the locals dec after the attempts outs.
LoadAudioEnds(t, frame, outs, dec) ==
  /\ ret' = AfterLoop(dec, frame.mono, frame.sample_rate, frame.enforce_length_s)
  /\ call' = [op |-> "load_audio", source |-> frame.source, mono |-> frame.mono,
              sample_rate |-> frame.sample_rate,
              enforce_length_s |-> frame.enforce_length_s, outs |-> outs,
              trace |-> LoadTrace(dec, Len(outs), frame.sample_rate)]
  /\ run' = [run EXCEPT ![t] = Idle]
  /\ UNCHANGED <<fs, ds>>

\* The next pass of the loop of lines 92-97: a decode attempt, then either
\* the rest of the call or the wait of line 97, in which the step ends.
LoadAudioAttempts(t, frame) ==
  \E o \in DecodeOutcomes(fs[frame.source]) :
    LET a == DecodeAttempt(fs[frame.source], o)
        outs == Append(frame.outs, o)
    IN IF a.break
         THEN LoadAudioEnds(t, frame, outs, a)
         ELSE /\ run' = [run EXCEPT ![t] = [frame EXCEPT !.outs = outs]]
              /\ call' = NoCall
              /\ ret' = Pending
              /\ UNCHANGED <<fs, ds>>

\* Thread t goes on with its load_audio call: it makes the first attempt,
\* or wakes from the wait and makes the next one, or, after the wait that
\* follows the last attempt, leaves the loop with nothing bound.
LoadAudioRuns(t) ==
  /\ run[t].op = "load_audio"
  /\ IF Len(run[t].outs) < Retries
       THEN LoadAudioAttempts(t, run[t])
       ELSE LoadAudioEnds(t, run[t], run[t].outs, NoDecode)

NextLoad == \E t \in Threads : LoadAudioRuns(t)

SpecLoad == InitLoad /\ [][NextLoad]_vars
(* ------------------- specification of the provider -------------------- *)

Paths == {"a", "b"}

\* What is stored at each path.
Content(p) ==
  IF p = "a" THEN [wav |-> Tensor(2, <<<<0, 2>>, <<2, 2>>>>), rate |-> 1]
  ELSE [wav |-> Tensor(2, <<<<2, 0>>>>), rate |-> 2]

\* The states of the two files: both readable, the first one corrupt or
\* behind a transient fault, both corrupt.
DsStatuses ==
  {[a |-> "ok", b |-> "ok"], [a |-> "bad", b |-> "ok"], [a |-> "flaky", b |-> "ok"],
   [a |-> "bad", b |-> "bad"]}

\* Source lists: up to MaxSources paths, no path twice.
PathLists ==
  {PyList([k \in DOMAIN s |-> PyStr(s[k])]) :
     s \in {q \in SeqsUpTo(Paths, MaxSources) : \A i, j \in DOMAIN q : q[i] = q[j] => i = j}}

\* Label lists: none, or k labels, the label of position i being 10 + i
\* (pairwise distinct, so that a label tells the index it was read at).
LabelLists ==
  {None} \cup {PyList([i \in 1..k |-> PyInt(10 + i)]) : k \in 0..MaxSources}

Perms(n) == {p \in [1..n -> 0..(n - 1)] : \A i, j \in 1..n : p[i] = p[j] => i = j}

Init ==
  /\ fs \in {[p \in Paths |-> [status |-> st[p], wav |-> Content(p).wav,
                               rate |-> Content(p).rate]] : st \in DsStatuses}
  /\ ds = NoObject
  /\ run = [t \in Threads |-> Idle]
  /\ call = NoCall
  /\ ret = Pending

\* The loader configurations providers are constructed with: the defaults,
\* and stereo kept with resampling to rate 2.
Configs ==
  {[mono |-> PyBool(TRUE), sample_rate |-> None, enforce_length_s |-> None],
   [mono |-> PyBool(FALSE), sample_rate |-> PyInt(2), enforce_length_s |-> None]}

\* The threads that call __getitem__: every thread.
Getters == Threads

\* The threads that call __init__ again on the provider: the one that
\* has constructed it.
Owners == {"B"}

\* AudioDataset(...): the instance is new, so the call is one step. A
\* construction that raises binds no provider.
Construct ==
  /\ ds = NoObject
  /\ \E paths \in PathLists, labels \in LabelLists, only_waveform \in Bools, cfg \in Configs :
       LET r == AudioDataset_init(paths, labels, only_waveform, cfg.mono, cfg.sample_rate,
                                  cfg.enforce_length_s)
       IN /\ ds' = IF r.ret.ok THEN r.self ELSE NoObject
          /\ ret' = r.ret
          /\ call' = [op |-> "__init__", paths |-> paths, labels |-> labels, fresh |-> TRUE]
  /\ UNCHANGED <<fs, run>>

\* Thread t goes on with its __init__ call in frame f by one line.
InitGoesOn(t, f) ==
  LET s == InitStep(ds, f) IN
  /\ ds' = s.self
  /\ run' = [run EXCEPT ![t] = IF s.f.pc = "end" THEN Idle ELSE s.f]
  /\ call' = IF s.f.pc = "end"
               THEN [op |-> "__init__", paths |-> f.paths, labels |-> f.labels,
                     fresh |-> FALSE]
               ELSE NoCall
  /\ ret' = s.f.ret
  /\ UNCHANGED fs

\* Thread t calls ds.__init__(...) on the provider, with new lists and a
\* new shape and the loader configuration the provider has, while no other
\* thread is in __init__: line 62.
InitCalled(t) ==
  /\ t \in Owners
  /\ run[t] = Idle
  /\ ds # NoObject
  /\ \A u \in Threads : run[u].op # "__init__"
  /\ \E paths \in PathLists, labels \in LabelLists, only_waveform \in Bools :
       InitGoesOn(t, InitEnter(paths, labels, only_waveform, ds._to_mono, ds.sr,
                               ds._enforce_length_s))

\* Lines 63-73 of the __init__ call of thread t, one line a step.
InitRuns(t) ==
  /\ run[t].op = "__init__"
  /\ InitGoesOn(t, run[t])

\* len(ds): line 85 reads self._sources; one step.
CallLen ==
  /\ ds # NoObject
  /\ \E t \in Threads : run[t] = Idle
  /\ ret' = Return(PyInt(AudioDataset_len(ds)))
  /\ call' = [op |-> "__len__"]
  /\ UNCHANGED <<fs, ds, run>>

\* Variant of GetItemGoesOn in which the call, once its first load has
\* failed, removes the source of that load from the list.
GetItemGoesOn_DropsFailed(t, f) ==
  /\ run' = [run EXCEPT ![t] = IF f.pc = "end" THEN Idle ELSE f]
  /\ call' = IF f.pc = "end" THEN f ELSE NoCall
  /\ ret' = f.ret
  /\ ds' = IF f.pc = "l128" /\ PyGetItem(ds._sources, f.idx).ok
             THEN [ds EXCEPT !._sources =
                     PyList([k \in 1..(Len(ds._sources.v) - 1) |->
                               ds._sources.v[IF k <= f.idx THEN k ELSE k + 1]])]
             ELSE ds
  /\ UNCHANGED fs

\* The __getitem__ call of thread t is in frame f after a step: it goes
\* on, or it has ended and its frame and outcome are those of the call
\* that ended last. No step of it assigns to the provider.
GetItemGoesOn(t, f) ==
  /\ run' = [run EXCEPT ![t] = IF f.pc = "end" THEN Idle ELSE f]
  /\ call' = IF f.pc = "end" THEN f ELSE NoCall
  /\ ret' = f.ret
  /\ UNCHANGED <<fs, ds>>

\* Thread t calls ds[idx] with a valid index: line 120 reads self._sources[idx].
GetItemCalled(t) ==
  /\ t \in Getters
  /\ run[t] = Idle
  /\ ds # NoObject
  /\ \E idx \in 0..(AudioDataset_len(ds) - 1) : GetItemGoesOn(t, GetItemEnter(ds, idx))

\* Lines 121-124: thread t reads the next argument of load_audio, or makes
\* the next decode attempt of the load_audio call of line 119.
GetItemLoads(t) ==
  /\ run[t].op = "__getitem__"
  /\ run[t].pc \in ConfigLines \cup {"l94"}
  /\ \E o \in (IF run[t].pc = "l94" THEN DecodeOutcomes(fs[run[t].source.v]) ELSE {"ok"}) :
       GetItemGoesOn(t, GetItemStep(ds, fs, run[t], o, <<>>))

\* Lines 125-136: the next step of thread t in the handler of a failed load.
GetItemSubstitutes(t) ==
  /\ run[t].op = "__getitem__"
  /\ run[t].pc \in HandlerLines
  /\ \E perm \in (IF run[t].pc = "l128" THEN Perms(AudioDataset_len(ds)) ELSE {<<>>}) :
       GetItemGoesOn(t, GetItemStep(ds, fs, run[t], "ok", perm))

\* Lines 141-150: the next step of thread t in shaping the record.
GetItemShapes(t) ==
  /\ run[t].op = "__getitem__"
  /\ run[t].pc \in ShapeLines
  /\ GetItemGoesOn(t, GetItemStep(ds, fs, run[t], "ok", <<>>))

Next ==
  \/ Construct
  \/ CallLen
  \/ \E t \in Threads : InitCalled(t)
  \/ \E t \in Threads : InitRuns(t)
  \/ \E t \in Threads : GetItemCalled(t)
  \/ \E t \in Threads : GetItemLoads(t)
  \/ \E t \in Threads : GetItemSubstitutes(t)
  \/ \E t \in Threads : GetItemShapes(t)

Spec == Init /\ [][Next]_vars

(* ======================= claims about the provider ==================== *)

N == AudioDataset_len(ds)

SourceFile(i) == fs[ds._sources.v[i + 1].v]

\* The last step ended a get: call is the frame of that get as it ended,
\* with what it read (idx, source, the loader configuration, the lines of
\* the shape), the outcomes of its decode attempts and its locals st.
GetDone == call.op = "__getitem__"

\* The load of the requested index raised.
FirstFailed == GetDone /\ ~call.first_ok

\* What the get read from the provider is what the provider holds now: the
\* call went as on a provider that no __init__ has touched meanwhile.
Coherent ==
  /\ PyGetItem(ds._sources, call.idx) = Return(call.source)
  /\ call.mono = ds._to_mono
  /\ call.sample_rate = ds.sr
  /\ call.enforce_length_s = ds._enforce_length_s
  /\ call.drawn => Len(call.perm) = N
  /\ call.only_waveform # Unbound => call.only_waveform = ds._only_waveform
  /\ call.has_labels # Unbound => call.has_labels = PyBool(ds._labels # None)
  /\ call.src # Unbound => PyGetItem(ds._sources, call.st.idx) = Return(call.src)

\* The provider is one a construction yields: labels, when it has any, are
\* as many as sources. (__init__ called again with lists of different
\* lengths raises and leaves the instance with both.)
Constructible == ds._labels # None => Len(ds._labels.v) = N

\* Source i loads under the provider's configuration, whatever the decoder does.
Loadable(i) ==
  \A outs \in Outcomes(SourceFile(i)) :
    load_audio(SourceFile(i), ds._to_mono, ds.sr, ds._enforce_length_s, outs).ok

\* w is what some successful load of the source at path p yields, under
\* the configuration the call read.
LoadedFrom(p, w) ==
  \E outs \in Outcomes(fs[p]) :
    LET r == load_audio(fs[p], call.mono, call.sample_rate, call.enforce_length_s, outs)
    IN r.ok /\ r.val = w

\* The path of the source the call ended on: the one it read at line 120,
\* or the one of the candidate that replaced it.
FinalSource ==
  IF call.first_ok THEN call.source.v ELSE ds._sources.v[call.st.idx + 1].v

HasLabels == ds._labels # None

OnlyWaveform == ds._only_waveform = PyBool(TRUE)

\* The parts of a returned record, by the configured shape.
WaveformOf(rec) ==
  IF OnlyWaveform THEN (IF HasLabels THEN rec.v[1] ELSE rec)
  ELSE (IF HasLabels THEN rec.v[1].v[2] ELSE rec.v[2])

IdentifierOf(rec) == IF HasLabels THEN rec.v[1].v[1] ELSE rec.v[1]

LabelOf(rec) == rec.v[2]

\* The record names source j (and its label) wherever it names any.
RefersTo(rec, j) ==
  /\ ~OnlyWaveform => IdentifierOf(rec) = ds._sources.v[j + 1]
  /\ HasLabels => LabelOf(rec) = ds._labels.v[j + 1]

\* C1: when the load of the requested index fails and some source of the
\* list is loadable, get returns a record for an index whose load succeeded,
\* naming that source (and its label), never a source that failed.
C1_Substitution ==
  (FirstFailed /\ Coherent /\ Constructible /\ \E i \in 0..(N - 1) : Loadable(i)) =>
    /\ ret.ok
    /\ LoadedFrom(FinalSource, call.st.waveform)
    /\ WaveformOf(ret.val) = call.st.waveform
    /\ RefersTo(ret.val, call.st.idx)

\* C2: get either returns a record holding the waveform of a successful
\* load, or raises ExhaustionError; no other error reaches the caller.
C2_TwoOutcomes ==
  (GetDone /\ Coherent /\ Constructible) =>
    \/ /\ ret.ok
       /\ call.st.waveform.cls = "Tensor"
       /\ LoadedFrom(FinalSource, call.st.waveform)
       /\ WaveformOf(ret.val) = call.st.waveform
    \/ ret = ExhaustionError

\* C3: get raises ExhaustionError exactly when the load of the requested
\* index and the load of every index of the permutation have failed.
C3_Exhaustion ==
  (GetDone /\ Coherent /\ Constructible) =>
    ((FirstFailed /\ call.st.waveform = Unbound) <=> ret = ExhaustionError)

\* The record lines 141-150 build from the waveform w, the source src and
\* the label lab, by the shape asked for and the presence of labels.
Shaped(only_waveform, has_labels, src, w, lab) ==
  IF ~only_waveform /\ ~has_labels THEN PyTuple(<<src, w>>)
  ELSE IF ~only_waveform THEN PyTuple(<<PyTuple(<<src, w>>), lab>>)
  ELSE IF ~has_labels THEN w
  ELSE PyTuple(<<w, lab>>)

\* C7: a successful get with final index j and waveform w returns
\* (sources[j], w), ((sources[j], w), labels[j]), w or (w, labels[j])
\* according to only_waveform and the presence of labels, w being what the
\* load of the source read for the call yielded. Whatever __init__ calls
\* ran meanwhile, the record has the shape and the parts the call read.
C7_ReturnShape ==
  (GetDone /\ ret.ok) =>
    LET j == call.st.idx
        w == call.st.waveform
        src == ds._sources.v[j + 1]
        lab == ds._labels.v[j + 1]
    IN /\ w.cls = "Tensor"
       /\ call.st.tried = <<>> => (j = call.idx /\ LoadedFrom(call.source.v, w))
       /\ ret.val = Shaped(call.only_waveform = PyBool(TRUE), call.has_labels = PyBool(TRUE),
                           IF call.src # Unbound THEN call.src ELSE src, w, lab)
       /\ Coherent => ret.val = Shaped(OnlyWaveform, HasLabels, src, w, lab)

\* A get of a later index has returned (waveform, label) after a wait.
C7_Witness ==
  /\ GetDone
  /\ ret.ok
  /\ Coherent
  /\ OnlyWaveform
  /\ HasLabels
  /\ call.idx = 1
  /\ call.st.idx = 1
  /\ Len(call.outs) = 2

\* C8: __init__ raises DimensionMismatch exactly when labels are given
\* and their number differs from the number of sources; otherwise it yields
\* a provider with these lists, and a construction that fails yields none.
C8_DimensionCheck ==
  call.op = "__init__" =>
    LET mismatch == call.labels # None /\ Len(call.labels.v) # Len(call.paths.v)
    IN /\ mismatch <=> ret = DimensionMismatch
       /\ ~mismatch <=> ret.ok
       /\ ret.ok => ds # NoObject
       /\ ds # NoObject => (ds._sources = call.paths /\ ds._labels = call.labels)
       /\ (call.fresh /\ ~ret.ok) => ds = NoObject

\* Construction with fewer labels than sources has been refused.
C8_Witness ==
  /\ call.op = "__init__"
  /\ call.fresh
  /\ call.labels # None
  /\ Len(call.labels.v) < Len(call.paths.v)
  /\ ret = DimensionMismatch
  /\ ds = NoObject

\* The load of source i with the provider's configuration.
ConfiguredLoad(i, outs) ==
  load_audio(SourceFile(i), ds._to_mono, ds.sr, ds._enforce_length_s, outs)

\* C13: every candidate of the scan is loaded as the requested index is:
\* by load_waveform with the provider's mono, sample_rate and
\* enforce_length, so that, the decoder behaving alike, a substitute is
\* normalized exactly as a direct load of it would be.
C13_SameLoader ==
  (FirstFailed /\ Coherent) =>
    \A k \in 1..Len(call.st.tried) :
      LET i == call.st.tried[k]
      IN \A outs \in Outcomes(SourceFile(i)) :
           CandidateLoad(ds, fs, i, outs) = ConfiguredLoad(i, outs)

\* The frames of the gets that are going on.
GetFrames == {run[t] : t \in {u \in Threads : run[u].op = "__getitem__"}}

\* The attempts of the get in frame f have come in order so far.
InOrder(f) ==
  LET n == Len(f.st.tried) IN
  /\ f.pc \notin ConfigLines \cup {"l94"} => Len(f.outs) >= 1
  /\ f.first_ok => (~f.drawn /\ f.st.idx = f.idx)
  /\ f.pc \in ConfigLines \cup {"l94", "l126", "l128"} => ~f.drawn
  /\ ~f.drawn => (f.perm = <<>> /\ n = 0)
  /\ f.drawn =>
       /\ f.perm \in Perms(Len(f.perm))
       /\ n <= Len(f.perm)
       /\ f.st.tried = SubSeq(f.perm, 1, n)
  /\ \A j, k \in 1..n : f.st.tried[j] = f.st.tried[k] => j = k
  /\ (f.drawn /\ f.st.waveform # Unbound) => f.st.idx = f.st.tried[n]
  /\ (f.pc = "end" /\ f.drawn /\ f.st.exc.ok /\ f.st.waveform = Unbound) =>
       (n = Len(f.perm) /\ f.st.idx = f.idx)

\* C15: the requested index is attempted first; the permutation is drawn
\* and its candidates attempted only after that attempt has failed; the
\* candidates are attempted in the order of the permutation, each index
\* at most once; nothing is loaded after the first candidate that loads.
C15_AttemptOrder ==
  /\ \A f \in GetFrames : InOrder(f)
  /\ GetDone =>
       /\ InOrder(call)
       /\ (Coherent /\ call.drawn) => call.perm \in Perms(N)

\* The first load failed after its waits and the candidates were tried in
\* the order 1, 0.
C15_Witness ==
  /\ GetDone
  /\ Coherent
  /\ ~call.first_ok
  /\ call.idx = 0
  /\ Len(call.outs) = 3
  /\ call.perm = <<1, 0>>
  /\ call.st.tried = <<1, 0>>

\* Loads attempted by the call in frame f: the requested index, then the
\* candidates.
Loads(f) == 1 + Len(f.st.tried)

\* The work of the get in frame f is within its bounds so far.
Bounded(f) ==
  /\ Len(f.outs) <= Retries
  /\ Len(f.st.tried) <= Len(f.perm)
  /\ f.decodes <= Retries * Loads(f)

\* How far the get in frame f has come: the lines in the order the call
\* goes through them, the passes of a loop counted within its lines.
Progress(f) ==
  CASE f.pc = "l121" -> 1
    [] f.pc = "l122" -> 2
    [] f.pc = "l123" -> 3
    [] f.pc = "l94" -> 4 + Len(f.outs)
    [] f.pc = "l126" -> 10
    [] f.pc = "l128" -> 11
    [] f.pc = "l130" -> 10 + 3 * f.k
    [] f.pc = "l132" -> 11 + 3 * f.k
    [] f.pc = "l135" -> 12 + 3 * f.k
    [] f.pc = "l141" -> 100
    [] f.pc = "l142" -> 101
    [] f.pc = "l145" -> 102
    [] f.pc = "l147" -> 101
    [] f.pc = "l148" -> 102
    [] f.pc = "l150" -> 102
    [] f.pc = "l150b" -> 103

\* C16: a get ends, having attempted at most 1 + length() loads of at
\* most 3 decode attempts each, hence at most 3 * (1 + length()) decodes:
\* the work of a get that is going on is within these bounds, every step
\* of it takes it further through its lines, whose number is bounded, and
\* a get that has ended has an outcome.
C16_Termination ==
  /\ [](/\ \A f \in GetFrames : Bounded(f) /\ Progress(f) <= 103
        /\ GetDone =>
             /\ ret # Pending
             /\ Bounded(call)
             /\ Coherent =>
                  /\ Loads(call) <= 1 + N
                  /\ call.decodes <= 3 * (1 + N))
  /\ [][\A t \in Threads :
          (run[t].op = "__getitem__" /\ run'[t] # run[t]) =>
            \/ run'[t] = Idle /\ call'.op = "__getitem__"
            \/ run'[t].op = "__getitem__" /\ Progress(run'[t]) > Progress(run[t])]_vars

\* A get of 2 sources ended after 3 decode attempts and 3 loads.
C16_Witness ==
  /\ GetDone
  /\ Coherent
  /\ ret # Pending
  /\ N = 2
  /\ Loads(call) = 3
  /\ call.decodes = 3

\* C17: no step of a get or of a length call changes the source list, the
\* label list or the configuration, which change only by a line of
\* __init__; length() is the number of sources; a step of one thread leaves
\* the call another thread is in as it was; and what a get yields is
\* decided by the provider, the decoder and the permutation drawn, whatever
\* calls came before or in between.
C17_Frame ==
  [][/\ ds' # ds =>
          \/ call'.op = "__init__"
          \/ \E t \in Threads : run'[t].op = "__init__"
     /\ \A t \in Threads : (run[t].op = "__getitem__" /\ run'[t] # run[t]) => ds' = ds
     /\ call'.op = "__len__" => (ds' = ds /\ ret' = Return(PyInt(Len(ds._sources.v))))
     /\ \A t \in Threads :
          run'[t] # run[t] => \A u \in Threads \ {t} : run'[u] = run[u]
     /\ (GetDone /\ Coherent)' =>
          ret' = AudioDataset_getitem(ds', fs', call'.idx, Script(call'.outs), call'.perm)]_vars

\* A get on a provider of 2 labelled sources has failed while the other
\* thread is in the middle of a call of its own.
C17_Witness ==
  /\ GetDone
  /\ Coherent
  /\ ~ret.ok
  /\ ~call.first_ok
  /\ N = 2
  /\ HasLabels
  /\ Len(ds._labels.v) = 2
  /\ \E t \in Threads : run[t] # Idle

(* ======================= claims about load_audio ====================== *)

LoadDone == call.op = "load_audio"

LoadedFile == fs[call.source]

\* Every decode attempt of the call raised.
AllAttemptsRaised ==
  Len(call.outs) = Retries /\ \A i \in 1..Retries : call.outs[i] = "raise"

\* The attempts raised until the last one, which answered o.
FirstAnswer(o) ==
  /\ call.outs # <<>>
  /\ call.outs[Len(call.outs)] = o
  /\ \A j \in 1..(Len(call.outs) - 1) : call.outs[j] = "raise"

NumChannels(t) == IF t.nd = 1 THEN 1 ELSE Len(t.d)

\* The channels of a buffer, a 1-D buffer being its single channel.
ChannelsOf(t) == IF t.nd = 1 THEN <<t.d>> ELSE t.d

NumSamples(t) == IF t.nd = 1 THEN Len(t.d) ELSE Len(t.d[1])

\* The rate in force after the resampling step.
EffectiveRate ==
  IF call.sample_rate # None THEN call.sample_rate.v ELSE LoadedFile.rate

\* The decoded buffer, brought to the rate asked for when one is asked.
Resampled ==
  IF call.sample_rate # None /\ call.sample_rate.v # LoadedFile.rate
    THEN resample(LoadedFile.wav, LoadedFile.rate, call.sample_rate.v).val
    ELSE LoadedFile.wav

\* C4: load_waveform fails with DecodeError, and with no other error, when
\* all 3 decode attempts raise and when decoding yields no data.
C4_DecodeError ==
  (LoadDone /\ (AllAttemptsRaised \/ FirstAnswer("none"))) => ret = DecodeError

\* C6: a successful load with enforce_length has exactly
\* effective_sample_rate * enforce_length samples and, with mono asked,
\* one channel; a decodable, non-empty source with a positive
\* enforce_length does load.
C6_PostNormalization ==
  LoadDone =>
    /\ (ret.ok /\ call.enforce_length_s # None) =>
         /\ NumSamples(ret.val) = EffectiveRate * call.enforce_length_s.v
         /\ call.mono = PyBool(TRUE) => NumChannels(ret.val) = 1
    /\ (/\ FirstAnswer("ok")
        /\ NumSamples(LoadedFile.wav) > 0
        /\ call.enforce_length_s # None
        /\ call.enforce_length_s.v > 0) => ret.ok

\* C9: the buffer is replaced by the mean across channels only if mono is
\* true and there is more than one channel; with mono=false the decoded
\* (and possibly resampled) channels are returned unchanged.
C9_DownmixConditional ==
  (LoadDone /\ ret.ok /\ call.enforce_length_s = None) =>
    /\ call.mono = PyBool(FALSE) => ChannelsOf(ret.val) = ChannelsOf(Resampled)
    /\ ChannelsOf(ret.val) # ChannelsOf(Resampled) =>
         (call.mono = PyBool(TRUE) /\ NumChannels(Resampled) > 1)

\* C12: the loader resamples only when a target rate is given that differs
\* from the decoded native rate; the rate then in force, which the
\* length-enforcement step is handed, is the target rate, and otherwise
\* the native rate.
C12_ResampleConditional ==
  (LoadDone /\ call.trace.decoded) =>
    LET t == call.trace
        wanted == call.sample_rate # None /\ call.sample_rate.v # LoadedFile.rate
    IN /\ t.resampled.ok
       /\ t.resampled.val.waveform = Resampled
       /\ ~wanted => t.resampled.val.waveform = t.waveform
       /\ t.resampled.val.rate.v = EffectiveRate
       /\ t.resampled.val.rate =
            (IF wanted THEN call.sample_rate ELSE PyInt(LoadedFile.rate))

\* A 2-frame file of rate 1 was brought to rate 2 (4 frames).
C12_Witness ==
  /\ LoadDone
  /\ call.trace.decoded
  /\ LoadedFile.rate = 1
  /\ call.sample_rate = PyInt(2)
  /\ NumSamples(LoadedFile.wav) = 2
  /\ NumSamples(call.trace.resampled.val.waveform) = 4
  /\ call.trace.resampled.val.rate = PyInt(2)

\* C14: a load makes between 1 and 3 decode attempts, attempt k + 1 only
\* after attempts 1..k have all raised and none after an attempt that
\* answered; an attempt that decodes hands its samples and rate on to
\* the normalization, so that the call ends as the loop run over these
\* attempts does.
C14_DecodeRetries ==
  /\ \A u \in Threads :
       run[u].op = "load_audio" =>
         /\ Len(run[u].outs) <= Retries
         /\ \A j \in 1..Len(run[u].outs) : run[u].outs[j] = "raise"
  /\ LoadDone =>
       LET t == call.trace
           n == t.calls
       IN /\ n = Len(call.outs)
          /\ 1 <= n /\ n <= 3
          /\ \A j \in 1..(n - 1) : call.outs[j] = "raise"
          /\ n < 3 => call.outs[n] # "raise"
          /\ AllAttemptsRaised => ~t.decoded
          /\ ret = load_audio(LoadedFile, call.mono, call.sample_rate,
                              call.enforce_length_s, Script(call.outs))
          /\ call.outs[n] = "ok" =>
               /\ t.decoded
               /\ t.waveform = LoadedFile.wav
               /\ t.rate = PyInt(LoadedFile.rate)
               /\ call.enforce_length_s = None =>
                    (ret.ok /\ ret.val = MonoStep(Resampled, call.mono))

\* The first attempt raised, the second decoded after the wait, and the
\* load returned, the other thread being still in its own call.
C14_Witness ==
  /\ LoadDone
  /\ call.outs = <<"raise", "ok">>
  /\ call.trace.calls = 2
  /\ call.trace.decoded
  /\ ret.ok
  /\ \E u \in Threads : run[u].op = "load_audio" /\ Len(run[u].outs) > 0

(* ===================== claims about enforce_length ==================== *)

EnforceDone == call.op = "enforce_length" /\ ret # Pending

\* The length asked for is a plain number.
NumericLength == call.enforce_length_s.cls = "int"

\* C5: for a non-empty waveform of length L, a positive rate and a positive
\* enforce_length, with T = sample_rate * enforce_length, the operation
\* returns T samples: the input if L = T, its first T samples if L > T,
\* the input followed by T - L zeros if L < T.
C5_EnforceLength ==
  LET w == call.waveform
      L == Len(w.d)
      T == call.sample_rate.v * call.enforce_length_s.v
  IN (/\ EnforceDone
      /\ NumericLength
      /\ w.cls = "Tensor" /\ w.nd = 1 /\ L > 0
      /\ call.sample_rate.v > 0 /\ call.enforce_length_s.v > 0) =>
       /\ ret.ok
       /\ Len(ret.val.d) = T
       /\ L = T => ret.val = w
       /\ L > T => ret.val.d = SubSeq(w.d, 1, T)
       /\ L < T => ret.val.d = w.d \o [i \in 1..(T - L) |-> 0]

\* C10: length enforcement fails with ValidationError when the buffer is
\* empty, when enforce_length <= 0 and when the rate <= 0, the checks
\* reading the numeric values of the length and the rate.
C10_Validation ==
  LET w == call.waveform
  IN (/\ EnforceDone
      /\ NumericLength
      /\ w.cls = "Tensor"
      /\ \/ Len(w.d) = 0
         \/ call.enforce_length_s.v <= 0
         \/ call.sample_rate.v <= 0) => ret \in ValidationErrors

\* Length enforcement applied to what a first enforcement returned.
EnforcedAgain ==
  enforce_length(ret.val, call.sample_rate, call.enforce_length_s)

\* C11: for a non-empty waveform, a positive rate and a positive
\* enforce_length, enforcing the length of the enforced waveform yields
\* that same waveform again.
C11_Idempotence ==
  LET w == call.waveform
  IN (/\ EnforceDone
      /\ NumericLength
      /\ w.cls = "Tensor" /\ w.nd = 1 /\ Len(w.d) > 0
      /\ call.sample_rate.v > 0 /\ call.enforce_length_s.v > 0) =>
       /\ ret.ok
       /\ EnforcedAgain.ok
       /\ EnforcedAgain.val = ret.val

====
